---- MODULE Spec2Model ----
(***************************************************************************)
(* Model of the plate-text core of flow_testing.ipynb:                     *)
(*   extract_indonesian_plate_format, get_region_info and                  *)
(*   process_alpr_results, with the static table cityCode_dict.            *)
(*                                                                         *)
(* A Python str is modelled as a sequence of one-character strings, so     *)
(* that upper-casing, whitespace removal and the regular expression are    *)
(* computed character by character.  The region names of the table are     *)
(* never inspected by the code and are kept as whole strings.              *)
(***************************************************************************)
EXTENDS Naturals, Sequences, FiniteSets, TLC

VARIABLES
  \* process_alpr_results
  pc,               \* "idle" | "loop" | "returned" | "error" | "off"
  predictions,      \* list returned by alpr_instance.predict(frame)
  idx,              \* position of the for loop in predictions (1-based)
  detected_plates,  \* the output list being built
  ocr_text,         \* loop locals
  formatted_plate,
  region_code,
  region_info,
  \* direct calls of the two helper functions
  upc,              \* "off" | "input" | "extracted" | "compared" |
                    \* "renormalized" | "reformatted" | "lookup" | "resolved"
  text,             \* argument of extract_indonesian_plate_format
  clean_text,       \* its local clean_text
  match,            \* its local match
  ret,              \* its return value <<formatted_plate, region_code>>
  text2,            \* a second argument: a respelling of text, or the
                    \* formatted plate returned for text
  ret2,             \* the return value for text2
  clean2,           \* the cleaning expression applied to clean_text
  code,             \* argument of get_region_info
  info              \* its return value

pvars == <<pc, predictions, idx, detected_plates, ocr_text, formatted_plate,
           region_code, region_info>>
uvars == <<upc, text, clean_text, match, ret, text2, ret2, clean2, code, info>>
vars == <<pc, predictions, idx, detected_plates, ocr_text, formatted_plate,
          region_code, region_info,
          upc, text, clean_text, match, ret, text2, ret2, clean2, code, info>>

----------------------------------------------------------------------------
(* Python values *)

\* None, encoded so that it can be compared with a str (a sequence of
\* characters): a one-element tuple whose element is no character.
None == <<"None">>

\* The exception a dict subscript raises for a missing key.
KeyError == "<KeyError>"

\* bool(x) for x a str or None: None and '' are falsy.
Truthy(x) == x # None /\ x # <<>>

----------------------------------------------------------------------------
(* Characters *)

LowerLetters == <<"a","b","c","d","e","f","g","h","i","j","k","l","m",
                  "n","o","p","q","r","s","t","u","v","w","x","y","z">>
UpperLetters == <<"A","B","C","D","E","F","G","H","I","J","K","L","M",
                  "N","O","P","Q","R","S","T","U","V","W","X","Y","Z">>

\* A decimal digit outside ASCII (ARABIC-INDIC DIGIT THREE), written as a
\* token; it stands for one character.
ArabicThree == "u0663"

\* [A-Z]
AZ == {UpperLetters[i] : i \in 1..Len(UpperLetters)}

\* [0-9]
AsciiDigits == {"0","1","2","3","4","5","6","7","8","9"}

\* \d of a str pattern: every Unicode decimal digit, of which the model
\* knows the ASCII ones and ArabicThree.
DecimalDigits == AsciiDigits \cup {ArabicThree}

\* \s of a str pattern, restricted to the characters TLA+ can write.
Whitespace == {" ", "\t", "\n", "\r", "\f"}

\* Mutation of UpperChar: str.swapcase() on one character.
SwapCaseChar(c) ==
  IF \E i \in 1..Len(LowerLetters) : LowerLetters[i] = c
  THEN UpperLetters[CHOOSE i \in 1..Len(LowerLetters) : LowerLetters[i] = c]
  ELSE IF \E i \in 1..Len(UpperLetters) : UpperLetters[i] = c
  THEN LowerLetters[CHOOSE i \in 1..Len(UpperLetters) : UpperLetters[i] = c]
  ELSE c

\* str.upper() on one character: a-z go to A-Z, every other character of
\* the model is unchanged.
UpperChar(c) ==
  IF \E i \in 1..Len(LowerLetters) : LowerLetters[i] = c
  THEN UpperLetters[CHOOSE i \in 1..Len(LowerLetters) : LowerLetters[i] = c]
  ELSE c

\* str.lower() on one character (used only to build respellings).
LowerChar(c) ==
  IF \E i \in 1..Len(UpperLetters) : UpperLetters[i] = c
  THEN LowerLetters[CHOOSE i \in 1..Len(UpperLetters) : UpperLetters[i] = c]
  ELSE c

----------------------------------------------------------------------------
(* extract_indonesian_plate_format *)

\* Mutation of Upper: the text is not upper-cased.
NotUppered(s) == s

\* text.upper()
Upper(s) == [i \in 1..Len(s) |-> UpperChar(s[i])]

IsNotWhitespace(c) == c \notin Whitespace

\* Mutation of ReSubWhitespace: str.strip(), which removes the whitespace
\* at the two ends only.
RECURSIVE StripLeft(_)
StripLeft(s) ==
  IF s # <<>> /\ Head(s) \in Whitespace THEN StripLeft(Tail(s)) ELSE s

RECURSIVE StripRight(_)
StripRight(s) ==
  IF s # <<>> /\ s[Len(s)] \in Whitespace
  THEN StripRight(SubSeq(s, 1, Len(s) - 1)) ELSE s

StripEnds(s) == StripRight(StripLeft(s))

\* re.sub(r'\s+', '', s): every maximal run of whitespace is replaced by
\* the empty string, which removes exactly the whitespace characters.
ReSubWhitespace(s) == SelectSeq(s, IsNotWhitespace)

\* clean_text = re.sub(r'\s+', '', text.upper())
Normalize(s) == ReSubWhitespace(Upper(s))

\* The quantifier bounds of pattern
\*   ^([A-Z]{1,2})(\d{1,4})([A-Z]{1,3})$
RegionMin == 1
RegionMax == 2
NumberMin == 1
\* Mutation of NumberMax: \d{1,5}.
NumberMaxFive == NumberMin + 4
NumberMax == 4
SuffixMin == 1
SuffixMax == 3

\* character classes of the three groups
RegionClass == AZ
NumberClass == DecimalDigits
\* Mutation of SuffixClass: [A-Z0-9].
SuffixClassAlnum == AZ \cup AsciiDigits
SuffixClass == AZ

AllIn(s, from, to, class) == \A p \in from..to : s[p] \in class

\* $ without re.MULTILINE: at the end of the string, or just before a
\* newline that is the last character.
EndAnchor(s, p) ==
  \/ p = Len(s) + 1
  \/ p = Len(s) /\ s[p] = "\n"

\* All ways the pattern can match s from position 1 (re.match, ^):
\* <<i, j, k>> are the lengths of the three groups.
Splits(s) ==
  {t \in (RegionMin..RegionMax) \X (NumberMin..NumberMax) \X (SuffixMin..SuffixMax) :
     /\ t[1] + t[2] + t[3] <= Len(s)
     /\ AllIn(s, 1, t[1], RegionClass)
     /\ AllIn(s, t[1] + 1, t[1] + t[2], NumberClass)
     /\ AllIn(s, t[1] + t[2] + 1, t[1] + t[2] + t[3], SuffixClass)
     /\ EndAnchor(s, t[1] + t[2] + t[3] + 1)}

\* t is tried before u by the backtracking engine: the quantifiers are
\* greedy, so the longer first group comes first, then the longer second
\* group, then the longer third group.
TriedBefore(t, u) ==
  \/ t[1] > u[1]
  \/ t[1] = u[1] /\ t[2] > u[2]
  \/ t[1] = u[1] /\ t[2] = u[2] /\ t[3] > u[3]

\* The split the engine reports: the first one it tries that succeeds.
FirstSplit(s) ==
  CHOOSE t \in Splits(s) : \A u \in Splits(s) \ {t} : TriedBefore(t, u)

\* match = re.match(pattern, clean_text): a match object with its three
\* groups, or None (ok = FALSE).
NoMatch == [ok |-> FALSE, g1 |-> <<>>, g2 |-> <<>>, g3 |-> <<>>]

ReMatch(s) ==
  IF Splits(s) = {} THEN NoMatch
  ELSE LET t == FirstSplit(s)
       IN  [ok |-> TRUE,
            g1 |-> SubSeq(s, 1, t[1]),
            g2 |-> SubSeq(s, t[1] + 1, t[1] + t[2]),
            g3 |-> SubSeq(s, t[1] + t[2] + 1, t[1] + t[2] + t[3])]

\* Mutation of FormatPlate: the groups are separated by dashes.
FormatPlateDashed(g1, g2, g3) == g1 \o <<"-">> \o g2 \o <<"-">> \o g3

\* f"{region_code} {numbers} {suffix}"
FormatPlate(g1, g2, g3) == g1 \o <<" ">> \o g2 \o <<" ">> \o g3

\* The return value: <<formatted_plate, region_code>> or <<None, None>>.
extract_indonesian_plate_format(s) ==
  LET m == ReMatch(Normalize(s))
  IN  IF m.ok
      THEN <<FormatPlate(m.g1, m.g2, m.g3), m.g1>>
      ELSE <<None, None>>

----------------------------------------------------------------------------
(* cityCode_dict and get_region_info *)

List(names) == [kind |-> "list", names |-> names]
Str(name)   == [kind |-> "str", name |-> name]

cityCode_dict ==
  (<<"A","A">> :> List(<<"Purworejo", "Temanggung", "Magelang", "Wonosobo", "Kebumen">>)) @@
  (<<"B">>     :> List(<<"DKI Jakarta", "Bekasi", "Depok", "Tangerang">>)) @@
  (<<"D">>     :> List(<<"Bandung", "Bandung Barat", "Cimahi">>)) @@
  (<<"A","G">> :> List(<<"Tulungagung", "Kediri", "Blitar", "Trenggalek", "Nganjuk">>)) @@
  (<<"B","A">> :> Str("Sumatera Barat")) @@
  (<<"B","P">> :> Str("Kepulauan Riau")) @@
  (<<"D","K">> :> Str("Bali")) @@
  (<<"H">>     :> Str("Semarang")) @@
  (<<"L">>     :> Str("Surabaya")) @@
  (<<"M">>     :> Str("Madura")) @@
  (<<"N">>     :> List(<<"Malang", "Pasuruan", "Probolinggo", "Batu", "Lumajang">>)) @@
  (<<"P","A">> :> Str("Papua")) @@
  (<<"P","B">> :> Str("Papua Barat")) @@
  (<<"S">>     :> List(<<"Tuban", "Jombang", "Bojonegoro", "Lamongan", "Mojokerto">>)) @@
  (<<"W">>     :> List(<<"Gresik", "Sidoarjo">>))

RegionNotFound == "Region not found in database"

\* Mutation of Join: the names joined in reverse order.
RECURSIVE JoinReversed(_, _)
JoinReversed(names, sep) ==
  IF names = <<>> THEN ""
  ELSE IF Len(names) = 1 THEN names[1]
  ELSE JoinReversed(Tail(names), sep) \o sep \o names[1]

\* sep.join(names)
RECURSIVE Join(_, _)
Join(names, sep) ==
  IF names = <<>> THEN ""
  ELSE IF Len(names) = 1 THEN names[1]
  ELSE names[1] \o sep \o Join(Tail(names), sep)

\* Mutation of InDict: the membership test is missing.
InDictAlways(c) == TRUE

\* region_code in cityCode_dict
InDict(c) == c \in DOMAIN cityCode_dict

\* The two return expressions for a value of the table: ', '.join(regions)
\* for a list, the name itself for a str.
FormatRegions(regions) ==
  IF regions.kind = "list" THEN Join(regions.names, ", ") ELSE regions.name

\* cityCode_dict[region_code], formatted; a missing key raises KeyError.
Subscript(c) ==
  IF c \in DOMAIN cityCode_dict THEN FormatRegions(cityCode_dict[c]) ELSE KeyError

get_region_info(c) == IF InDict(c) THEN Subscript(c) ELSE RegionNotFound

----------------------------------------------------------------------------
(* Inputs *)

\* Bounds of the inputs.
MaxLen == 4            \* raw texts enumerated exhaustively up to this length
MaxRegionLetters == 3  \* shaped texts: letters before the digits
MaxNumberDigits == 5   \* shaped texts: digits
MaxSuffixLetters == 4  \* shaped texts: letters after the digits
MaxDetections == 3     \* detections of one frame

\* Characters of the exhaustively enumerated raw texts: an upper-case and a
\* lower-case letter, an ASCII and a non-ASCII digit, two whitespace
\* characters and a symbol.
CoreAlphabet == {"D", "d", "1", ArabicThree, " ", "\n", "#"}

AllTexts == UNION {[1..n -> CoreAlphabet] : n \in 0..MaxLen}

\* The first n characters of the endless repetition of seq.
Cycle(seq, n) == [i \in 1..n |-> seq[((i - 1) % Len(seq)) + 1]]

\* Texts made of a run of letters, a run of digits and a run of letters,
\* every run from empty to one longer than the pattern allows.
ShapedTexts ==
  {Cycle(<<"D","K","A">>, i) \o Cycle(<<"1","2","3","4","5","6">>, j)
      \o Cycle(<<"A","B","C","D","E">>, k) :
     i \in 0..MaxRegionLetters, j \in 0..MaxNumberDigits, k \in 0..MaxSuffixLetters}

ExampleTexts ==
  { <<"d","1","2","3","4","a","b","c">>,
    <<" ","d"," ","1","2","3","4"," ","a","b","c"," ">>,
    <<"#","#","#">>,
    <<"D","1","2","3","4","5","A","B","C">>,
    <<"D","1","A","B","C","D","E","F">>,
    <<"Z","Z","1","A">>,
    <<"B"," ","1","2","3"," ","C","D">>,
    <<"D","-","1","2","3","4","-","A","B","C">> }

UnitTexts == AllTexts \cup ShapedTexts \cup ExampleTexts

\* Respellings of s: s with one whitespace character inserted anywhere,
\* with the case of one letter changed, all in lower case, and with a
\* space around every character.
InsertAt(s, p, c) == SubSeq(s, 1, p) \o <<c>> \o SubSeq(s, p + 1, Len(s))

SwapCaseAt(s, p) ==
  [s EXCEPT ![p] = IF UpperChar(s[p]) = s[p] THEN LowerChar(s[p]) ELSE UpperChar(s[p])]

Lower(s) == [i \in 1..Len(s) |-> LowerChar(s[i])]

RECURSIVE Spaced(_)
Spaced(s) == IF s = <<>> THEN <<" ">> ELSE <<" ", Head(s)>> \o Spaced(Tail(s))

Respellings(s) ==
  {InsertAt(s, p, c) : p \in 0..Len(s), c \in {" ", "\n", "\t"}}
    \cup {SwapCaseAt(s, p) : p \in 1..Len(s)}
    \cup {Lower(s), Spaced(s)}

\* Arguments of get_region_info: every key of the table and some strings
\* that are not keys.
CodeInputs ==
  DOMAIN cityCode_dict
    \cup { <<"Z","Z">>, <<"Z">>, <<"b">>, <<"d">>, <<"d","k">>, <<"D","k">>,
           <<>>, <<" ","B">>, <<"B"," ">>, <<"D","K","A">>, <<"A">>, <<"K">> }

\* One element of the list predict returns: prediction.ocr.text,
\* prediction.ocr.confidence (in hundredths) and prediction.bbox_xyxy.
Prediction(t, c, b) == [ocr |-> [text |-> t, confidence |-> c], bbox_xyxy |-> b]

PipelineTexts ==
  { <<"d","1","2","3","4","a","b","c">>,
    <<" ","d","k"," ","1"," ","a">>,
    <<"#","#","#">>,
    <<"Z","Z","1","A">>,
    <<"D","1","2","3","4","5","A","B","C">> }

Readings == { <<92, <<10, 20, 100, 50>> >>, <<50, <<0, 0, 1, 1>> >> }

Predictions == {Prediction(t, r[1], r[2]) : t \in PipelineTexts, r \in Readings}

\* The lists predict may return: every list of up to MaxDetections of the
\* predictions above, and every one-element list whose text is one of the
\* raw texts of the direct calls.
PredictionLists ==
  UNION {[1..n -> Predictions] : n \in 0..MaxDetections}
    \cup {<<Prediction(t, r[1], r[2])>> : t \in UnitTexts, r \in Readings}

----------------------------------------------------------------------------
(* process_alpr_results *)

\* The variables of the direct calls, unused by process_alpr_results.
UnitOff ==
  /\ upc = "off" /\ text = <<>> /\ clean_text = <<>> /\ match = NoMatch
  /\ ret = <<None, None>> /\ text2 = <<>> /\ ret2 = <<None, None>>
  /\ clean2 = <<>> /\ code = <<>> /\ info = ""

Init ==
  /\ pc = "idle"
  /\ predictions = <<>>
  /\ idx = 1
  /\ detected_plates = <<>>
  /\ ocr_text = None
  /\ formatted_plate = None
  /\ region_code = None
  /\ region_info = ""
  /\ UnitOff

\* The call, up to the for loop: predictions = alpr_instance.predict(frame)
\* and detected_plates = [].
Call ==
  /\ pc = "idle"
  /\ \E p \in PredictionLists : predictions' = p
  /\ idx' = 1
  /\ detected_plates' = <<>>
  /\ ocr_text' = None
  /\ formatted_plate' = None
  /\ region_code' = None
  /\ region_info' = ""
  /\ pc' = "loop"
  /\ UNCHANGED uvars

\* Mutation of plate_info: original_text holds the cleaned text instead of
\* the text as received.
plate_info_cleaned(prediction, fp, rc, ri) ==
  [original_text   |-> Normalize(prediction.ocr.text),
   formatted_plate |-> fp,
   region_code     |-> rc,
   region_info     |-> ri,
   confidence      |-> prediction.ocr.confidence,
   bbox            |-> prediction.bbox_xyxy]

\* The dictionary appended for an accepted detection.
plate_info(prediction, fp, rc, ri) ==
  [original_text   |-> prediction.ocr.text,
   formatted_plate |-> fp,
   region_code     |-> rc,
   region_info     |-> ri,
   confidence      |-> prediction.ocr.confidence,
   bbox            |-> prediction.bbox_xyxy]

\* Mutation of AppendPlate: list.insert(0, plate_info).
InsertFirst(plates, info_dict) == <<info_dict>> \o plates

\* detected_plates.append(plate_info)
AppendPlate(plates, info_dict) == Append(plates, info_dict)

\* Mutation of Accepted: a plate of an unknown region is not accepted.
AcceptedKnownRegion(fp, rc) == Truthy(fp) /\ Truthy(rc) /\ InDict(rc)

\* The condition of the if statement.
Accepted(fp, rc) == Truthy(fp) /\ Truthy(rc)

\* One iteration of the for loop.
LoopBody ==
  /\ pc = "loop"
  /\ idx <= Len(predictions)
  /\ LET prediction == predictions[idx]
         r == extract_indonesian_plate_format(prediction.ocr.text)
         ri == get_region_info(r[2])
     IN  /\ ocr_text' = prediction.ocr.text
         /\ formatted_plate' = r[1]
         /\ region_code' = r[2]
         /\ IF Accepted(r[1], r[2])
            THEN IF ri = KeyError
                 THEN /\ pc' = "error"
                      /\ UNCHANGED <<region_info, detected_plates, idx>>
                 ELSE /\ region_info' = ri
                      /\ detected_plates' =
                           AppendPlate(detected_plates,
                                       plate_info(prediction, r[1], r[2], ri))
                      /\ idx' = idx + 1
                      /\ pc' = "loop"
            ELSE /\ idx' = idx + 1
                 /\ pc' = "loop"
                 /\ UNCHANGED <<region_info, detected_plates>>
  /\ UNCHANGED predictions
  /\ UNCHANGED uvars

\* return detected_plates, once the loop is exhausted.
Return ==
  /\ pc = "loop"
  /\ idx > Len(predictions)
  /\ pc' = "returned"
  /\ UNCHANGED <<predictions, idx, detected_plates, ocr_text, formatted_plate,
                 region_code, region_info>>
  /\ UNCHANGED uvars

Next == Call \/ LoopBody \/ Return

Spec == Init /\ [][Next]_vars

----------------------------------------------------------------------------
(* Direct calls of extract_indonesian_plate_format and get_region_info *)

\* The variables of process_alpr_results, unused by the direct calls.
PipelineOff ==
  /\ pc = "off" /\ predictions = <<>> /\ idx = 1 /\ detected_plates = <<>>
  /\ ocr_text = None /\ formatted_plate = None /\ region_code = None
  /\ region_info = ""

UnitInit ==
  /\ PipelineOff
  /\ clean_text = <<>> /\ match = NoMatch /\ ret = <<None, None>>
  /\ text2 = <<>> /\ ret2 = <<None, None>> /\ clean2 = <<>> /\ info = ""
  /\ \/ upc = "input" /\ text \in UnitTexts /\ code = <<>>
     \/ upc = "lookup" /\ code \in CodeInputs /\ text = <<>>

\* extract_indonesian_plate_format(text)
ExtractCall ==
  /\ upc = "input"
  /\ clean_text' = Normalize(text)
  /\ match' = ReMatch(Normalize(text))
  /\ ret' = extract_indonesian_plate_format(text)
  /\ upc' = "extracted"
  /\ UNCHANGED <<text, text2, ret2, clean2, code, info>>
  /\ UNCHANGED pvars

\* extract_indonesian_plate_format on a respelling of text
ExtractRespelled ==
  /\ upc = "extracted"
  /\ \E v \in Respellings(text) :
       /\ text2' = v
       /\ ret2' = extract_indonesian_plate_format(v)
  /\ upc' = "compared"
  /\ UNCHANGED <<text, clean_text, match, ret, clean2, code, info>>
  /\ UNCHANGED pvars

\* extract_indonesian_plate_format on the formatted plate it returned
ExtractFormatted ==
  /\ upc = "extracted"
  /\ Truthy(ret[1])
  /\ text2' = ret[1]
  /\ ret2' = extract_indonesian_plate_format(ret[1])
  /\ upc' = "reformatted"
  /\ UNCHANGED <<text, clean_text, match, ret, clean2, code, info>>
  /\ UNCHANGED pvars

\* the cleaning expression applied to its own result
CleanAgain ==
  /\ upc = "extracted"
  /\ clean2' = Normalize(clean_text)
  /\ upc' = "renormalized"
  /\ UNCHANGED <<text, clean_text, match, ret, text2, ret2, code, info>>
  /\ UNCHANGED pvars

\* get_region_info(code)
RegionCall ==
  /\ upc = "lookup"
  /\ info' = get_region_info(code)
  /\ upc' = "resolved"
  /\ UNCHANGED <<text, clean_text, match, ret, text2, ret2, clean2, code>>
  /\ UNCHANGED pvars

UnitNext ==
  ExtractCall \/ ExtractRespelled \/ ExtractFormatted \/ CleanAgain \/ RegionCall

UnitSpec == UnitInit /\ [][UnitNext]_vars

----------------------------------------------------------------------------
(* The plate grammar and the runs of a text, stated without the pattern *)

AsciiLetters == AZ \cup {LowerLetters[i] : i \in 1..Len(LowerLetters)}

\* s is 1 to 2 letters A-Z, then 1 to 4 digits, then 1 to 3 letters A-Z,
\* and nothing else.
FullyMatchesGrammar(s) ==
  \E i \in 1..2, j \in 1..4, k \in 1..3 :
     /\ Len(s) = i + j + k
     /\ \A p \in 1..i : s[p] \in AZ
     /\ \A p \in (i + 1)..(i + j) : s[p] \in DecimalDigits
     /\ \A p \in (i + j + 1)..(i + j + k) : s[p] \in AZ

\* Length of the longest run of characters of class that starts at from.
RunLength(s, from, class) ==
  CHOOSE n \in 0..Len(s) :
     /\ from + n - 1 <= Len(s)
     /\ \A p \in from..(from + n - 1) : s[p] \in class
     /\ (from + n <= Len(s) => s[from + n] \notin class)

\* the leading run of letters, the run of digits after it, and the rest
LetterRun(s) == SubSeq(s, 1, RunLength(s, 1, AZ))
DigitRun(s) ==
  LET a == RunLength(s, 1, AZ) + 1
  IN  SubSeq(s, a, a + RunLength(s, a, DecimalDigits) - 1)
RestAfterDigits(s) ==
  LET a == RunLength(s, 1, AZ) + 1
      b == a + RunLength(s, a, DecimalDigits)
  IN  SubSeq(s, b, Len(s))

CountOf(s, c) == Cardinality({p \in 1..Len(s) : s[p] = c})

Symbols == {"#", "-"}

Hashes == <<"#","#","#">>
ZZ1A == <<"Z","Z","1","A">>

----------------------------------------------------------------------------
(* Claims *)

\* C1: an iteration of the loop of process_alpr_results adds exactly one
\* record when the whitespace-stripped, upper-cased text of its detection
\* fully matches the plate grammar, and leaves the output list as it is
\* when the text does not match; "###" is dropped.
C1_DropIffNoMatch ==
  [][(pc = "loop" /\ idx <= Len(predictions)) =>
       LET t == predictions[idx].ocr.text
       IN  /\ IF FullyMatchesGrammar(Normalize(t))
              THEN /\ Len(detected_plates') = Len(detected_plates) + 1
                   /\ SubSeq(detected_plates', 1, Len(detected_plates)) = detected_plates
              ELSE detected_plates' = detected_plates
           /\ (t = Hashes => detected_plates' = detected_plates)]_vars

\* "###" was dropped and a matching text after it gave the only record.
C1_Witness ==
  /\ pc = "returned"
  /\ Len(predictions) = 2
  /\ predictions[1].ocr.text = Hashes
  /\ predictions[2].ocr.text = ZZ1A
  /\ Len(detected_plates) = 1

\* C2: the match succeeds exactly for the cleaned texts that are, as a
\* whole, 1 to 2 letters A-Z, 1 to 4 digits (the characters \d matches) and
\* 1 to 3 letters A-Z; every other text returns (None, None), among them a
\* 5-digit number group, a 4-letter suffix, a 3-letter prefix and a
\* missing group.
C2_GrammarExact ==
  upc = "extracted" =>
    /\ match.ok <=> FullyMatchesGrammar(clean_text)
    /\ (ret = <<None, None>>) <=> ~FullyMatchesGrammar(clean_text)
    /\ text = <<"D","1","2","3","4","5","A","B","C">> => ret = <<None, None>>
    /\ text = <<"D","1","A","B","C","D","E","F">> => ret = <<None, None>>
    /\ text = <<"D","1","A","B","C","D">> => ret = <<None, None>>
    /\ text = <<"D","K","A","1","A">> => ret = <<None, None>>
    /\ text \in {<<"D","1">>, <<"D","A">>, <<"1","A">>, <<>>} => ret = <<None, None>>
    /\ text = <<"D","1","#","A">> => ret = <<None, None>>

\* the text with a 5-digit number group was rejected
C2_Witness ==
  /\ upc = "extracted"
  /\ text = <<"D","1","2","3","4","5","A","B","C">>
  /\ ~match.ok
  /\ ret = <<None, None>>

\* C3 as stated: the cleaned text contains only A-Z and 0-9.
C3_OnlyAZ09 ==
  upc = "extracted" =>
    \A p \in 1..Len(clean_text) : clean_text[p] \in AZ \cup AsciiDigits

\* C3 (amended): the cleaned text contains no whitespace and no lower-case
\* letter a-z; characters that are neither whitespace nor letters, such as
\* '#' and '-', pass through unchanged.  So the cleaned text contains only
\* A-Z and 0-9 when the raw text contains only whitespace, ASCII letters and
\* the digits 0-9, and it does not when the raw text contains a symbol.
C3_NoWhitespaceNoLowerCase ==
  upc = "extracted" =>
    /\ \A p \in 1..Len(clean_text) :
         clean_text[p] \notin Whitespace /\ clean_text[p] \notin AsciiLetters \ AZ
    /\ \A c \in Symbols \cup DecimalDigits : CountOf(clean_text, c) = CountOf(text, c)
    /\ (\A p \in 1..Len(text) : text[p] \in Whitespace \cup AsciiLetters \cup AsciiDigits)
         => (\A p \in 1..Len(clean_text) : clean_text[p] \in AZ \cup AsciiDigits)
    /\ (\E p \in 1..Len(text) : text[p] \in Symbols)
         => (\E p \in 1..Len(clean_text) : clean_text[p] \notin AZ \cup AsciiDigits)

\* a text with symbols was cleaned; the symbols are still there
C3_Witness ==
  /\ upc = "extracted"
  /\ text = <<"D","-","1","2","3","4","-","A","B","C">>
  /\ clean_text = text

\* The joined names of every key of the table that maps to a list.
JoinedNames ==
  (<<"A","A">> :> "Purworejo, Temanggung, Magelang, Wonosobo, Kebumen") @@
  (<<"B">>     :> "DKI Jakarta, Bekasi, Depok, Tangerang") @@
  (<<"D">>     :> "Bandung, Bandung Barat, Cimahi") @@
  (<<"A","G">> :> "Tulungagung, Kediri, Blitar, Trenggalek, Nganjuk") @@
  (<<"N">>     :> "Malang, Pasuruan, Probolinggo, Batu, Lumajang") @@
  (<<"S">>     :> "Tuban, Jombang, Bojonegoro, Lamongan, Mojokerto") @@
  (<<"W">>     :> "Gresik, Sidoarjo")

\* C4: get_region_info returns the name of a key with a single name, the
\* names of a key with a list joined by ", " in table order, and
\* "Region not found in database" for every string that is not a key,
\* lower-case forms of keys included; "B" gives
\* "DKI Jakarta, Bekasi, Depok, Tangerang", "DK" gives "Bali".
C4_RegionLookup ==
  upc = "resolved" =>
    /\ code \in DOMAIN JoinedNames => info = JoinedNames[code]
    /\ (code \in DOMAIN cityCode_dict /\ code \notin DOMAIN JoinedNames) =>
         /\ cityCode_dict[code].kind = "str"
         /\ info = cityCode_dict[code].name
    /\ code \notin DOMAIN cityCode_dict => info = "Region not found in database"
    /\ code = <<"B">> => info = "DKI Jakarta, Bekasi, Depok, Tangerang"
    /\ code = <<"D","K">> => info = "Bali"
    /\ code \in {<<"Z","Z">>, <<"b">>, <<"d","k">>, <<>>} =>
         info = "Region not found in database"

\* the lookup of "B" returned its four names
C4_Witness ==
  /\ upc = "resolved"
  /\ code = <<"B">>
  /\ info = "DKI Jakarta, Bekasi, Depok, Tangerang"

D1234abc == <<"d","1","2","3","4","a","b","c">>

D1234abcRecord ==
  [original_text   |-> D1234abc,
   formatted_plate |-> <<"D"," ","1","2","3","4"," ","A","B","C">>,
   region_code     |-> <<"D">>,
   region_info     |-> "Bandung, Bandung Barat, Cimahi",
   confidence      |-> 92,
   bbox            |-> <<10, 20, 100, 50>>]

\* position of the first occurrence of c in s (Len(s) + 1 when there is none)
FirstIndexOf(s, c) ==
  CHOOSE p \in 1..(Len(s) + 1) :
     /\ p <= Len(s) => s[p] = c
     /\ \A q \in 1..(p - 1) : s[q] # c

\* C5: the record appended for a detection has original_text equal to the
\* raw text as received, formatted_plate equal to the letters, the digits
\* and the suffix of the cleaned text separated by single spaces,
\* region_code equal to the leading 1 to 2 letters (the part of
\* formatted_plate before its first space), region_info equal to
\* get_region_info(region_code), and the confidence and bbox of the
\* detection; ("d1234abc", 0.92, [10,20,100,50]) gives "D 1234 ABC", "D",
\* "Bandung, Bandung Barat, Cimahi".
C5_RecordFields ==
  [][Len(detected_plates') > Len(detected_plates) =>
       LET rec == detected_plates'[Len(detected_plates')]
           d   == predictions[idx]
           n   == Normalize(d.ocr.text)
       IN  /\ rec.original_text = d.ocr.text
           /\ rec.formatted_plate =
                LetterRun(n) \o <<" ">> \o DigitRun(n) \o <<" ">> \o RestAfterDigits(n)
           /\ rec.region_code = LetterRun(n)
           /\ Len(rec.region_code) \in 1..2
           /\ \A p \in 1..Len(rec.region_code) : rec.region_code[p] \in AZ
           /\ rec.region_code =
                SubSeq(rec.formatted_plate, 1, FirstIndexOf(rec.formatted_plate, " ") - 1)
           /\ rec.region_info = get_region_info(rec.region_code)
           /\ rec.confidence = d.ocr.confidence
           /\ rec.bbox = d.bbox_xyxy
           /\ d = Prediction(D1234abc, 92, <<10, 20, 100, 50>>) => rec = D1234abcRecord]_vars

\* the frame with the single detection "d1234abc" returned its record
C5_Witness ==
  /\ pc = "returned"
  /\ predictions = <<Prediction(D1234abc, 92, <<10, 20, 100, 50>>)>>
  /\ detected_plates = <<D1234abcRecord>>

\* the positions 1..n of predictions whose text parses, in increasing order
ParsingPositions(n) ==
  LET Parses(i) == FullyMatchesGrammar(Normalize(predictions[i].ocr.text))
  IN  SelectSeq([i \in 1..n |-> i], Parses)

C6_Subsequence ==
  pc \in {"loop", "returned"} =>
    LET acc == ParsingPositions(idx - 1)
    IN  /\ idx - 1 <= Len(predictions)
        /\ (pc = "returned" => idx - 1 = Len(predictions))
        /\ Len(detected_plates) = Len(acc)
        /\ Len(detected_plates) <= Len(predictions)
        /\ \A k \in 1..Len(acc) :
             /\ detected_plates[k].original_text = predictions[acc[k]].ocr.text
             /\ detected_plates[k].confidence = predictions[acc[k]].ocr.confidence
             /\ detected_plates[k].bbox = predictions[acc[k]].bbox_xyxy

C6_AppendOnly ==
  pc = "loop" =>
    /\ Len(detected_plates') >= Len(detected_plates)
    /\ SubSeq(detected_plates', 1, Len(detected_plates)) = detected_plates

\* C6: the output list is the order-preserving subsequence of the
\* detections whose text parses: after any number of iterations it holds
\* one record for every parsing detection processed so far, in detection
\* order, and nothing else; while detections are processed it only grows
\* at the end, its earlier records unchanged; its final length is at most
\* the number of detections.
C6_OrderedOutput == []C6_Subsequence /\ [][C6_AppendOnly]_vars

\* a frame of three detections, the second dropped, returned the first and
\* the third in that order
C6_Witness ==
  /\ pc = "returned"
  /\ Len(predictions) = 3
  /\ predictions[1].ocr.text = D1234abc
  /\ predictions[2].ocr.text = Hashes
  /\ predictions[3].ocr.text = ZZ1A
  /\ Len(detected_plates) = 2
  /\ detected_plates[1].original_text = D1234abc
  /\ detected_plates[2].original_text = ZZ1A

\* s in lower case without its whitespace: two texts with the same folding
\* differ only in whitespace and in letter case.
Folded(s) == SelectSeq(Lower(s), IsNotWhitespace)

\* fp is 1 to 2 letters, a space, digits, a space and letters, with no
\* other space
TwoSingleSpaces(fp, rc) ==
  LET a == FirstIndexOf(fp, " ")
      rest == SubSeq(fp, a + 1, Len(fp))
      b == FirstIndexOf(rest, " ")
  IN  /\ CountOf(fp, " ") = 2
      /\ a = Len(rc) + 1
      /\ SubSeq(fp, 1, a - 1) = rc
      /\ b \in 2..(Len(rest) - 1)
      /\ \A p \in 1..(b - 1) : rest[p] \in DecimalDigits
      /\ \A p \in (b + 1)..Len(rest) : rest[p] \in AZ

\* C7: a respelling of a raw text that differs from it only in whitespace
\* (anywhere, also inside a group) and in letter case gets the same return
\* value from extract_indonesian_plate_format, (None, None) or the same
\* formatted_plate and region_code; a formatted plate has exactly two
\* spaces, one after the region code and one between number and suffix.
C7_Canonical ==
  /\ upc = "compared" =>
       /\ Folded(text2) = Folded(text)
       /\ ret2 = ret
       /\ ret2[1] # None => TwoSingleSpaces(ret2[1], ret2[2])
  /\ (upc = "extracted" /\ ret[1] # None) => TwoSingleSpaces(ret[1], ret[2])

\* "d1234abc" and its spelling with a space around every character both
\* gave "D 1234 ABC"
C7_Witness ==
  /\ upc = "compared"
  /\ text = D1234abc
  /\ text2 = <<" ","d"," ","1"," ","2"," ","3"," ","4"," ","a"," ","b"," ","c"," ">>
  /\ ret = << <<"D"," ","1","2","3","4"," ","A","B","C">>, <<"D">> >>
  /\ ret2 = ret

C8_NoError ==
  /\ pc # "error"
  /\ pc = "returned" => idx = Len(predictions) + 1
  /\ pc \in {"loop", "returned"} =>
       \A i \in 1..(idx - 1) :
          predictions[i].ocr.text = ZZ1A =>
            \E k \in 1..Len(detected_plates) :
               /\ detected_plates[k].original_text = ZZ1A
               /\ detected_plates[k].confidence = predictions[i].ocr.confidence
               /\ detected_plates[k].region_code = <<"Z","Z">>
               /\ detected_plates[k].region_info = "Region not found in database"

C8_TwoOutcomes ==
  (pc = "loop" /\ idx <= Len(predictions)) =>
    /\ pc' = "loop"
    /\ idx' = idx + 1
    /\ \/ detected_plates' = detected_plates
       \/ /\ Len(detected_plates') = Len(detected_plates) + 1
          /\ SubSeq(detected_plates', 1, Len(detected_plates)) = detected_plates

\* C8: processing a detection never ends in an error: for every raw text
\* an iteration either drops the detection or adds one record and goes on
\* to the next detection, and the call returns only after all detections;
\* "ZZ1A", whose region code is not in the table, is not dropped but gets
\* a record with region_info "Region not found in database".
C8_NoFailure == []C8_NoError /\ [][C8_TwoOutcomes]_vars

\* "ZZ1A" got its record with the sentinel and the detection after it was
\* processed too
C8_Witness ==
  /\ pc = "returned"
  /\ Len(predictions) = 2
  /\ predictions[1].ocr.text = ZZ1A
  /\ predictions[2].ocr.text = D1234abc
  /\ Len(detected_plates) = 2
  /\ detected_plates[1].region_info = "Region not found in database"
  /\ detected_plates[2] = [D1234abcRecord EXCEPT
                             !.confidence = predictions[2].ocr.confidence,
                             !.bbox = predictions[2].bbox_xyxy]

\* C9: for a raw text of whitespace, ASCII letters and digits 0-9, cleaning
\* the cleaned text again returns it unchanged.
C9_Idempotent ==
  (/\ upc = "renormalized"
   /\ \A p \in 1..Len(text) : text[p] \in Whitespace \cup AsciiLetters \cup AsciiDigits)
    => clean2 = clean_text

\* " d 1234 abc " was cleaned to "D1234ABC" and cleaning that again gave
\* "D1234ABC"
C9_Witness ==
  /\ upc = "renormalized"
  /\ text = <<" ","d"," ","1","2","3","4"," ","a","b","c"," ">>
  /\ clean_text = <<"D","1","2","3","4","A","B","C">>
  /\ clean2 = clean_text

\* C10: a cleaned text that the pattern matches has exactly one way to
\* match: the region code is the whole leading run of letters (1 or 2), the
\* number the whole run of digits and the suffix the whole trailing run of
\* letters, so the order in which the engine tries the group lengths does
\* not change the groups.
C10_UniqueSplit ==
  (upc = "extracted" /\ match.ok) =>
    /\ Cardinality(Splits(clean_text)) = 1
    /\ match.g1 = LetterRun(clean_text)
    /\ match.g2 = DigitRun(clean_text)
    /\ match.g3 = RestAfterDigits(clean_text)
    /\ Len(match.g1) \in 1..2
    /\ clean_text = match.g1 \o match.g2 \o match.g3

\* "DK12AB" was matched with the two-letter region code
C10_Witness ==
  /\ upc = "extracted"
  /\ text = <<"D","K","1","2","A","B">>
  /\ match = [ok |-> TRUE, g1 |-> <<"D","K">>, g2 |-> <<"1","2">>, g3 |-> <<"A","B">>]

\* s without its space characters
IsNotSpace(c) == c # " "
WithoutSpaces(s) == SelectSeq(s, IsNotSpace)

\* C11: for a raw text that extract_indonesian_plate_format accepts, the
\* formatted plate without its spaces is exactly the cleaned text, and
\* extract_indonesian_plate_format applied to the formatted plate returns
\* the same formatted plate and the same region code.
C11_RoundTrip ==
  /\ (upc \in {"extracted", "reformatted"} /\ ret[1] # None) =>
       WithoutSpaces(ret[1]) = clean_text
  /\ upc = "reformatted" =>
       /\ text2 = ret[1]
       /\ ret2 # <<None, None>>
       /\ ret2[1] = ret[1]
       /\ ret2[2] = ret[2]

\* " d 1234 abc " gave "D 1234 ABC", and "D 1234 ABC" gave itself
C11_Witness ==
  /\ upc = "reformatted"
  /\ text = <<" ","d"," ","1","2","3","4"," ","a","b","c"," ">>
  /\ text2 = <<"D"," ","1","2","3","4"," ","A","B","C">>
  /\ ret2 = <<text2, <<"D">> >>

====
